---- MODULE Spec2Model ----
(***************************************************************************)
(* A model of youtube_channel_analytics.py: the duration parser, the title *)
(* classifier, the feature derivation of process_dataframe, the extractor  *)
(* and its paging, the keyword analysis, the decision logic of the         *)
(* hypothesis tests and the pipeline of main.                              *)
(*                                                                         *)
(* Text is a sequence of one-character strings.  Ratios are kept as pairs  *)
(* of integers (numerator, denominator); p-values and correlations are     *)
(* integers in thousandths.  The statistics library (pearsonr, f_oneway,   *)
(* ttest_ind, mannwhitneyu) is outside the repository: its results are     *)
(* inputs of the decision logic, drawn from sample sets whatever the       *)
(* values of the table; only what the library does on the sizes of its     *)
(* inputs (an error on too few observations or groups, nan on an empty     *)
(* group) follows the table.                                               *)
(***************************************************************************)
EXTENDS Integers, Sequences, FiniteSets, TLC

VARIABLES
    pc,          \* position of the call being modelled / of main
    duration,    \* argument of duration_to_seconds
    total,       \* local `total` of duration_to_seconds, its return value
    title,       \* argument of categorize_video_type
    category,    \* return value of categorize_video_type
    video_data,  \* the list of raw records (dicts) a table is built from
    heap,        \* the DataFrame objects, by reference
    df,          \* the reference the caller holds in its variable df
    ret,         \* what the latest call on a table returned or raised
    playlist_id, \* main: the upload playlist id, or None
    video_ids,   \* main: the list of video ids
    csv_written, \* main: the table has been written to the CSV file
    h1_results,  \* main: what the three hypothesis tests returned
    h2_results,
    h3_results,
    output,      \* the conclusions printed so far
    stat_calls,  \* the statistical library functions called so far
    executed,    \* the procedures called so far
    top_percentile, \* argument of analyze_keyword_frequency
    common_keywords, \* return value of analyze_keyword_frequency
    server,      \* the YouTube Data API: the channel's videos and its failures
    requests     \* the requests sent to the API so far

vars == <<pc, duration, total, title, category, video_data, heap, df, ret,
          playlist_id, video_ids, csv_written, h1_results, h2_results, h3_results,
          output, stat_calls, executed, top_percentile, common_keywords, server, requests>>

durVars == <<duration, total>>
catVars == <<title, category>>
procVars == <<video_data, heap, df, ret>>
mainVars == <<playlist_id, video_ids, csv_written, h1_results, h2_results, h3_results,
              output, stat_calls, executed>>
kwVars == <<top_percentile, common_keywords>>
extVars == <<server, requests>>

(***************************************************************************)
(* Bounds of the model.                                                    *)
(***************************************************************************)
MaxHours   == 2     \* hour magnitudes 0..MaxHours in well-formed encodings
MaxMinutes == 16    \* minute magnitudes 0..MaxMinutes
MaxSeconds == 46    \* second magnitudes 0..MaxSeconds
MaxLen     == 4     \* length of the arbitrary (possibly malformed) strings
MaxWords   == 2     \* words of a title given to the classifier
MaxRows    == 2     \* records of a table given to process_dataframe
MaxViews   == 2     \* view counts 0..MaxViews
MaxCount   == 1     \* like and comment counts 0..MaxCount
MaxVideos  == 4     \* videos of a small channel in a run of main
PadVideos  == 10    \* further videos of a large channel, all alike
MaxPages   == 2     \* full pages of the upload playlist

(***************************************************************************)
(* Characters and decimal numbers.                                         *)
(***************************************************************************)
DigitChars == <<"0", "1", "2", "3", "4", "5", "6", "7", "8", "9">>

Digits == {DigitChars[i] : i \in 1..10}

\* \d of the regular expressions
IsDigit(c) == c \in Digits

DigitVal(c) == (CHOOSE i \in 1..10 : DigitChars[i] = c) - 1

\* int(group): the decimal value of a run of digits
RECURSIVE IntOf(_)
IntOf(ds) ==
    IF ds = <<>> THEN 0
    ELSE 10 * IntOf(SubSeq(ds, 1, Len(ds) - 1)) + DigitVal(ds[Len(ds)])

(***************************************************************************)
(* duration_to_seconds                                                     *)
(***************************************************************************)
NoMatch == <<"no match">>

\* The end of the longest run of digits of s that starts at i (s[i] a digit):
\* what the greedy \d+ consumes.
RECURSIVE DigitRunEnd(_, _)
DigitRunEnd(s, i) ==
    IF i + 1 <= Len(s) /\ IsDigit(s[i + 1]) THEN DigitRunEnd(s, i + 1) ELSE i

\* An attempt of (\d+)U at position i: the group, or NoMatch.  Giving back
\* digits cannot help: the character after a shorter run is a digit, not U.
MatchAt(s, i, unit) ==
    IF i <= Len(s) /\ IsDigit(s[i])
    THEN LET e == DigitRunEnd(s, i)
         IN  IF e + 1 <= Len(s) /\ s[e + 1] = unit THEN SubSeq(s, i, e) ELSE NoMatch
    ELSE NoMatch

\* re.search(r'(\d+)U', s).group(1): the attempts go from left to right and the
\* first that succeeds is the match.
RECURSIVE SearchFrom(_, _, _)
SearchFrom(s, i, unit) ==
    IF i > Len(s) THEN NoMatch
    ELSE IF MatchAt(s, i, unit) # NoMatch THEN MatchAt(s, i, unit)
    ELSE SearchFrom(s, i + 1, unit)

re_search(s, unit) == SearchFrom(s, 1, unit)

\* A faulty parser, for the sensitivity of C1: it counts minutes as hours.
duration_to_seconds_minutes_as_hours(d) ==
    LET hours   == re_search(d, "H")
        minutes == re_search(d, "M")
        seconds == re_search(d, "S")
    IN  (IF hours # NoMatch THEN IntOf(hours) * 3600 ELSE 0)
      + (IF minutes # NoMatch THEN IntOf(minutes) * 3600 ELSE 0)
      + (IF seconds # NoMatch THEN IntOf(seconds) ELSE 0)

duration_to_seconds(d) ==
    LET hours   == re_search(d, "H")
        minutes == re_search(d, "M")
        seconds == re_search(d, "S")
        t0 == 0
        t1 == IF hours # NoMatch THEN t0 + IntOf(hours) * 3600 ELSE t0
        t2 == IF minutes # NoMatch THEN t1 + IntOf(minutes) * 60 ELSE t1
        t3 == IF seconds # NoMatch THEN t2 + IntOf(seconds) ELSE t2
    IN  t3

(***************************************************************************)
(* The inputs of the parser: well-formed encodings PT[nH][nM][nS] and      *)
(* every string of at most MaxLen characters of a small alphabet.          *)
(***************************************************************************)
RECURSIVE Decimal(_)
Decimal(n) ==
    IF n < 10 THEN <<DigitChars[n + 1]>>
    ELSE Decimal(n \div 10) \o <<DigitChars[(n % 10) + 1]>>

\* A component of an encoding: absent (the empty tuple) or <<n>>.
Absent == <<>>

Optional(max) == {Absent} \cup { <<n>> : n \in 0..max }

ValueOf(n) == IF n = Absent THEN 0 ELSE n[1]

Component(n, unit) == IF n = Absent THEN <<>> ELSE Decimal(n[1]) \o <<unit>>

Encode(h, m, s) ==
    <<"P", "T">> \o Component(h, "H") \o Component(m, "M") \o Component(s, "S")

Encodings ==
    { Encode(h, m, s) : h \in Optional(MaxHours), m \in Optional(MaxMinutes),
                        s \in Optional(MaxSeconds) }

DurationAlphabet == {"P", "T", "D", "H", "M", "S", "0", "1", "2"}

Strings(alphabet, n) == UNION { [1..k -> alphabet] : k \in 0..n }

DurationInputs == Encodings \cup Strings(DurationAlphabet, MaxLen)

None == [type |-> "None"]

NoOutput ==
    [failure |-> "", h1 |-> "", h2 |-> "", h3 |-> "", categories |-> "",
     recommendation |-> <<>>, summary_h1 |-> "", summary_h2 |-> "", summary_h3 |-> ""]

IdleMain ==
    /\ playlist_id = "None"
    /\ video_ids = <<>>
    /\ csv_written = FALSE
    /\ h1_results = None
    /\ h2_results = None
    /\ h3_results = None
    /\ output = NoOutput
    /\ stat_calls = {}
    /\ executed = {}

IdleDuration == duration = <<>> /\ total = 0
IdleCategory == title = <<>> /\ category = "Other"
IdleProcess ==
    /\ video_data = <<>>
    /\ heap = <<>>
    /\ df = 0
    /\ ret = [status |-> "pending", ref |-> 0]

\* The default top_percentile=0.1, as the quotient 1 / 10.
DefaultPercentile == [num |-> 1, den |-> 10]

IdleKeywords == top_percentile = DefaultPercentile /\ common_keywords = <<>>
IdleExtract == server = None /\ requests = <<>>

InitDuration ==
    /\ pc = "duration_to_seconds"
    /\ duration \in DurationInputs
    /\ total = 0
    /\ IdleCategory
    /\ IdleProcess
    /\ IdleMain
    /\ IdleKeywords
    /\ IdleExtract

CallDurationToSeconds ==
    /\ pc = "duration_to_seconds"
    /\ total' = duration_to_seconds(duration)
    /\ pc' = "returned"
    /\ UNCHANGED <<duration, catVars, procVars, mainVars, kwVars, extVars>>

NextDuration == CallDurationToSeconds

SpecDuration == InitDuration /\ [][NextDuration]_vars

(***************************************************************************)
(* C1                                                                      *)
(***************************************************************************)
Units == {"H", "M", "S"}

\* The positions of s at which `unit` stands directly after a digit.
MarkedAt(s, unit) == { j \in 2..Len(s) : s[j] = unit /\ IsDigit(s[j - 1]) }

RECURSIVE Pow10(_)
Pow10(k) == IF k = 0 THEN 1 ELSE 10 * Pow10(k - 1)

\* The magnitude written before the (first) marker `unit`: the number spelt by
\* the digits that end just before it; 0 when no digit stands before a marker.
Magnitude(s, unit) ==
    IF MarkedAt(s, unit) = {} THEN 0
    ELSE LET j == CHOOSE x \in MarkedAt(s, unit) : \A y \in MarkedAt(s, unit) : x <= y
             k == CHOOSE x \in 1..(j - 1) :
                    /\ \A y \in x..(j - 1) : IsDigit(s[y])
                    /\ x = 1 \/ ~IsDigit(s[x - 1])
             Sum[i \in k..j] ==
                 IF i = j THEN 0 ELSE DigitVal(s[i]) * Pow10(j - 1 - i) + Sum[i + 1]
         IN  Sum[k]

IsPrefix(p, s) == Len(p) <= Len(s) /\ SubSeq(s, 1, Len(p)) = p

Example(chars, value) == duration = chars => total = value

\* C1: the value returned for a duration string is hours*3600 + minutes*60 +
\* seconds, each the magnitude written before its marker and 0 when absent; so
\* a well-formed encoding of (h, m, s) gives h*3600 + m*60 + s, a string with no
\* component gives 0, the result is never negative, and PT15M30S, PT1H, PT45S
\* and the empty string give 930, 3600, 45 and 0.
C1_DurationSum ==
    pc = "returned" =>
        /\ total = Magnitude(duration, "H") * 3600 + Magnitude(duration, "M") * 60
                     + Magnitude(duration, "S")
        /\ \A h \in Optional(MaxHours) :
             IsPrefix(Encode(h, Absent, Absent), duration) =>
               \A m \in Optional(MaxMinutes) :
                 IsPrefix(Encode(h, m, Absent), duration) =>
                   \A s \in Optional(MaxSeconds) :
                     duration = Encode(h, m, s) =>
                         total = ValueOf(h) * 3600 + ValueOf(m) * 60 + ValueOf(s)
        /\ (\A u \in Units : MarkedAt(duration, u) = {}) => total = 0
        /\ total >= 0
        /\ Example(<<"P", "T", "1", "5", "M", "3", "0", "S">>, 930)
        /\ Example(<<"P", "T", "1", "H">>, 3600)
        /\ Example(<<"P", "T", "4", "5", "S">>, 45)
        /\ Example(<<>>, 0)

\* A call on PT15M30S has returned.
C1_Witness ==
    /\ pc = "returned"
    /\ duration = <<"P", "T", "1", "5", "M", "3", "0", "S">>
    /\ total = 930

(***************************************************************************)
(* categorize_video_type                                                   *)
(***************************************************************************)
Upper == << "A", "B", "C", "D", "E", "F", "G", "H", "I", "J", "K", "L", "M", "N", "O", "P", "Q", "R", "S", "T", "U", "V", "W", "X", "Y", "Z" >>

LowerOf == << "a", "b", "c", "d", "e", "f", "g", "h", "i", "j", "k", "l", "m", "n", "o", "p", "q", "r", "s", "t", "u", "v", "w", "x", "y", "z" >>

KeywordsTutorial ==
    << <<"t", "u", "t", "o", "r", "i", "a", "l">>,
       <<"h", "o", "w", " ", "t", "o">>,
       <<"g", "u", "i", "d", "e">>,
       <<"l", "e", "a", "r", "n">>,
       <<"b", "e", "g", "i", "n", "n", "e", "r">>,
       <<"a", "d", "v", "a", "n", "c", "e", "d">>,
       <<"i", "n", "t", "e", "r", "m", "e", "d", "i", "a", "t", "e">>,
       <<"b", "a", "s", "i", "c", "s">>,
       <<"s", "t", "e", "p", " ", "b", "y", " ", "s", "t", "e", "p">>,
       <<"c", "o", "m", "p", "l", "e", "t", "e">>,
       <<"f", "u", "l", "l", " ", "c", "o", "u", "r", "s", "e">>,
       <<"t", "r", "a", "i", "n", "i", "n", "g">> >>

KeywordsCareer ==
    << <<"c", "a", "r", "e", "e", "r">>,
       <<"j", "o", "b">>,
       <<"s", "a", "l", "a", "r", "y">>,
       <<"i", "n", "t", "e", "r", "v", "i", "e", "w">>,
       <<"r", "e", "s", "u", "m", "e">>,
       <<"h", "i", "r", "i", "n", "g">>,
       <<"w", "o", "r", "k">>,
       <<"e", "m", "p", "l", "o", "y", "m", "e", "n", "t">>,
       <<"p", "r", "o", "m", "o", "t", "i", "o", "n">>,
       <<"c", "v">>,
       <<"r", "e", "c", "r", "u", "i", "t", "e", "r">> >>

KeywordsProject ==
    << <<"p", "r", "o", "j", "e", "c", "t">>,
       <<"p", "o", "r", "t", "f", "o", "l", "i", "o">>,
       <<"b", "o", "o", "t", "c", "a", "m", "p">>,
       <<"f", "u", "l", "l", " ", "p", "r", "o", "j", "e", "c", "t">>,
       <<"h", "a", "n", "d", "s", "-", "o", "n">>,
       <<"p", "r", "a", "c", "t", "i", "c", "a", "l">>,
       <<"r", "e", "a", "l", " ", "w", "o", "r", "l", "d">> >>

KeywordsTools ==
    << <<"e", "x", "c", "e", "l">>,
       <<"s", "q", "l">>,
       <<"p", "y", "t", "h", "o", "n">>,
       <<"t", "a", "b", "l", "e", "a", "u">>,
       <<"p", "o", "w", "e", "r", " ", "b", "i">>,
       <<"p", "a", "n", "d", "a", "s">>,
       <<"m", "y", "s", "q", "l">>,
       <<"j", "u", "p", "y", "t", "e", "r">>,
       <<"a", "n", "a", "c", "o", "n", "d", "a">>,
       <<"a", "z", "u", "r", "e">>,
       <<"a", "w", "s">> >>

KeywordsQALivestream ==
    << <<"q", "&", "a">>,
       <<"q", "a">>,
       <<"l", "i", "v", "e", "s", "t", "r", "e", "a", "m">>,
       <<"a", "s", "k", " ", "m", "e", " ", "a", "n", "y", "t", "h", "i", "n", "g">>,
       <<"a", "m", "a">>,
       <<"l", "i", "v", "e">>,
       <<"q", "u", "e", "s", "t", "i", "o", "n", "s">>,
       <<"a", "n", "s", "w", "e", "r", "s">> >>

KeywordsAdvice ==
    << <<"t", "i", "p", "s">>,
       <<"m", "i", "s", "t", "a", "k", "e", "s">>,
       <<"r", "e", "a", "s", "o", "n", "s">>,
       <<"b", "e", "s", "t">>,
       <<"t", "o", "p">>,
       <<"a", "v", "o", "i", "d">>,
       <<"s", "h", "o", "u", "l", "d">>,
       <<"s", "h", "o", "u", "l", "d", "n", "'", "t">>,
       <<"a", "d", "v", "i", "c", "e">>,
       <<"r", "e", "c", "o", "m", "m", "e", "n", "d", "a", "t", "i", "o", "n">> >>


\* str.lower() on the characters the titles use
LowerChar(c) ==
    IF \E i \in 1..26 : Upper[i] = c
    THEN LowerOf[CHOOSE i \in 1..26 : Upper[i] = c]
    ELSE c

lower(s) == [i \in 1..Len(s) |-> LowerChar(s[i])]

\* keyword in title_lower
Contains(kw, s) ==
    \E i \in 1..(Len(s) - Len(kw) + 1) : SubSeq(s, i, i + Len(kw) - 1) = kw

\* any(keyword in title_lower for keyword in keywords)
AnyKeywordIn(keywords, s) == \E k \in 1..Len(keywords) : Contains(keywords[k], s)

\* The dict `categories`, in insertion order, which is the order of iteration.
categories ==
    << <<"Tutorial", KeywordsTutorial>>,
       <<"Career", KeywordsCareer>>,
       <<"Project", KeywordsProject>>,
       <<"Tools", KeywordsTools>>,
       <<"Q&A/Livestream", KeywordsQALivestream>>,
       <<"Advice", KeywordsAdvice>> >>

\* for category, keywords in categories.items(): ... return category; return 'Other'
RECURSIVE FirstCategory(_, _, _)
FirstCategory(cats, i, title_lower) ==
    IF i > Len(cats) THEN "Other"
    ELSE IF AnyKeywordIn(cats[i][2], title_lower) THEN cats[i][1]
    ELSE FirstCategory(cats, i + 1, title_lower)

\* A faulty classifier, for the sensitivity of C2: Career before Tutorial.
categorize_video_type_career_first(t) ==
    FirstCategory(<<categories[2], categories[1]>> \o SubSeq(categories, 3, 6), 1, lower(t))

categorize_video_type(t) ==
    LET title_lower == lower(t)
    IN  FirstCategory(categories, 1, title_lower)

(***************************************************************************)
(* The inputs of the classifier: at most MaxWords words joined by spaces.  *)
(***************************************************************************)
Words ==
    { <<"S", "Q", "L">>,
      <<"T", "u", "t", "o", "r", "i", "a", "l">>,
      <<"C", "a", "r", "e", "e", "r">>,
      <<"J", "O", "B">>,
      <<"P", "o", "r", "t", "f", "o", "l", "i", "o">>,
      <<"L", "i", "v", "e">>,
      <<"T", "i", "p", "s">>,
      <<"V", "l", "o", "g">>,
      <<"H", "o", "w">>,
      <<"t", "o">>,
      <<"N", "e", "t", "w", "o", "r", "k">>,
      <<"D", "a", "y">> }

RECURSIVE JoinWords(_)
JoinWords(ws) ==
    IF ws = <<>> THEN <<>>
    ELSE IF Len(ws) = 1 THEN ws[1]
    ELSE ws[1] \o <<" ">> \o JoinWords(Tail(ws))

Titles == { JoinWords(ws) : ws \in UNION { [1..k -> Words] : k \in 0..MaxWords } }

InitCategorize ==
    /\ pc = "categorize_video_type"
    /\ title \in Titles
    /\ category = "Other"
    /\ IdleDuration
    /\ IdleProcess
    /\ IdleMain
    /\ IdleKeywords
    /\ IdleExtract

CallCategorizeVideoType ==
    /\ pc = "categorize_video_type"
    /\ category' = categorize_video_type(title)
    /\ pc' = "returned"
    /\ UNCHANGED <<title, durVars, procVars, mainVars, kwVars, extVars>>

NextCategorize == CallCategorizeVideoType

SpecCategorize == InitCategorize /\ [][NextCategorize]_vars

(***************************************************************************)
(* C2                                                                      *)
(***************************************************************************)
PriorityOrder == <<"Tutorial", "Career", "Project", "Tools", "Q&A/Livestream", "Advice">>

KeywordsOf(label) ==
    CASE label = "Tutorial" -> KeywordsTutorial
      [] label = "Career" -> KeywordsCareer
      [] label = "Project" -> KeywordsProject
      [] label = "Tools" -> KeywordsTools
      [] label = "Q&A/Livestream" -> KeywordsQALivestream
      [] label = "Advice" -> KeywordsAdvice

\* Some keyword of the category is a substring of the title, letter case ignored.
Hits(label, t) ==
    \E k \in 1..Len(KeywordsOf(label)) :
        LET n == Len(KeywordsOf(label)[k])
        IN  \E i \in 1..(Len(t) - n + 1) :
                lower(SubSeq(t, i, i + n - 1)) = KeywordsOf(label)[k]

\* C2: the label returned for a title is the first category of the order
\* Tutorial, Career, Project, Tools, Q&A/Livestream, Advice one of whose keywords
\* the title contains, and Other exactly when no category has one; a title with
\* a Tutorial keyword and a Career keyword is a Tutorial.
C2_FirstCategoryWins ==
    pc = "returned" =>
        /\ \A i \in 1..6 :
               category = PriorityOrder[i] <=>
                   /\ Hits(PriorityOrder[i], title)
                   /\ \A j \in 1..(i - 1) : ~Hits(PriorityOrder[j], title)
        /\ category = "Other" <=> \A i \in 1..6 : ~Hits(PriorityOrder[i], title)
        /\ Hits("Tutorial", title) /\ Hits("Career", title) => category = "Tutorial"

\* A title with a Career keyword before a Tutorial keyword has been classified.
C2_Witness ==
    /\ pc = "returned"
    /\ title = JoinWords(<< <<"C", "a", "r", "e", "e", "r">>,
                            <<"T", "u", "t", "o", "r", "i", "a", "l">> >>)
    /\ category = "Tutorial"

(***************************************************************************)
(* Tables.  A DataFrame is a set of column names and a sequence of rows;   *)
(* pd.DataFrame(list of dicts) takes its columns from the dicts, so the    *)
(* table of an empty list has no columns at all.                           *)
(***************************************************************************)
DataFrame(records) ==
    [columns |-> IF records = <<>> THEN {} ELSE DOMAIN records[1],
     rows    |-> records]

\* A float quotient, kept as its two operands.
Ratio(n, d) == [num |-> n, den |-> d]

\* x > n and x <= n for a quotient x with a positive denominator
RatioGT(x, n) == x.num > n * x.den
RatioLE(x, n) == x.num <= n * x.den

NaN == "NaN"

(***************************************************************************)
(* The published timestamp: pd.to_datetime of an ISO-8601 string, here the *)
(* calendar date it spells, and the .dt accessors the code reads.          *)
(***************************************************************************)
\* The days from 1970-01-01 to the civil date y-m-d (proleptic Gregorian).
DaysFromCivil(y, m, d) ==
    LET yy  == IF m <= 2 THEN y - 1 ELSE y
        era == yy \div 400
        yoe == yy - era * 400
        mp  == IF m > 2 THEN m - 3 ELSE m + 9
        doy == (153 * mp + 2) \div 5 + d - 1
        doe == yoe * 365 + yoe \div 4 - yoe \div 100 + doy
    IN  era * 146097 + doe - 719468

to_datetime(p) == [year |-> p.year, month |-> p.month, day |-> p.day,
                   ordinal |-> DaysFromCivil(p.year, p.month, p.day)]

\* .dt.dayofweek: Monday = 0 ... Sunday = 6 (1970-01-01 was a Thursday)
dayofweek(ts) == (ts.ordinal + 3) % 7

DayNames == <<"Monday", "Tuesday", "Wednesday", "Thursday", "Friday", "Saturday", "Sunday">>

day_name(ts) == DayNames[dayofweek(ts) + 1]

\* .dt.to_period('Q').astype(str): the year and the calendar quarter
to_period_Q(ts) == <<ts.year, "Q", ((ts.month - 1) \div 3) + 1>>

(***************************************************************************)
(* process_dataframe                                                       *)
(***************************************************************************)
\* A faulty guard, for the sensitivity of C3: the replacement is missing.
replace_0_1_missing(v) == v

\* df['views'].replace(0, 1)
replace_0_1(v) == IF v = 0 THEN 1 ELSE v

\* bins=[0, 5, 15, 30, 60, float('inf')]: the finite edges; the sixth is inf.
bins == <<0, 5, 15, 30, 60>>

labels == <<"Very Short (<5min)", "Short (5-15min)", "Medium (15-30min)",
            "Long (30-60min)", "Very Long (>60min)">>

\* pd.cut(x, bins, labels) with its defaults right=True, include_lowest=False:
\* interval i is (bins[i], bins[i+1]], and a value in no interval is NaN.
cut(x) ==
    LET hit == { i \in 1..5 : RatioGT(x, bins[i]) /\ (i = 5 \/ RatioLE(x, bins[i + 1])) }
    IN  IF hit = {} THEN NaN ELSE labels[CHOOSE i \in hit : TRUE]

\* The columns the function assigns, in the order of assignment.
DerivedColumns ==
    {"duration_sec", "duration_min", "likes_per_view", "comments_per_view",
     "engagement_rate", "upload_quarter", "day_of_week", "day_name", "month",
     "year", "category", "duration_category"}

\* One row after all the column assignments.
ProcessRow(r) ==
    LET duration_sec == duration_to_seconds(r.duration)
        duration_min == Ratio(duration_sec, 60)
        published    == to_datetime(r.published)
    IN  [r EXCEPT !.published = published] @@
        [duration_sec      |-> duration_sec,
         duration_min      |-> duration_min,
         likes_per_view    |-> Ratio(r.likes, replace_0_1(r.views)),
         comments_per_view |-> Ratio(r.comments, replace_0_1(r.views)),
         engagement_rate   |-> Ratio(r.likes + r.comments, replace_0_1(r.views)),
         upload_quarter    |-> to_period_Q(published),
         day_of_week       |-> dayofweek(published),
         day_name          |-> day_name(published),
         month             |-> published.month,
         year              |-> published.year,
         category          |-> categorize_video_type(r.title),
         duration_category |-> cut(duration_min)]

\* The table after the call and how the call ended: df['duration'] of a table
\* without that column raises KeyError before anything is assigned.
process_dataframe(frame) ==
    IF "duration" \notin frame.columns
    THEN [status |-> "KeyError", frame |-> frame]
    ELSE [status |-> "returned",
          frame  |-> [columns |-> frame.columns \cup DerivedColumns,
                      rows    |-> [i \in 1..Len(frame.rows) |-> ProcessRow(frame.rows[i])]]]

(***************************************************************************)
(* The inputs of process_dataframe: lists of at most MaxRows raw records.  *)
(***************************************************************************)
DefaultTitle == <<"V", "l", "o", "g">>

TitleSamples ==
    { DefaultTitle,
      <<"S", "Q", "L", " ", "T", "u", "t", "o", "r", "i", "a", "l">>,
      <<"J", "o", "b", " ", "T", "i", "p", "s">> }

Date(y, m, d) == [year |-> y, month |-> m, day |-> d]

DefaultPublished == Date(2024, 1, 1)

PublishedSamples == { DefaultPublished, Date(2023, 12, 31), Date(2024, 2, 29) }

DefaultDuration == Encode(Absent, <<10>>, Absent)

DurationSamples ==
    { <<>>,
      Encode(Absent, Absent, <<0>>),
      Encode(Absent, <<4>>, <<59>>),
      Encode(Absent, <<5>>, Absent),
      Encode(Absent, <<5>>, <<1>>),
      DefaultDuration,
      Encode(Absent, <<15>>, Absent),
      Encode(Absent, <<30>>, Absent),
      Encode(<<1>>, Absent, Absent),
      Encode(<<1>>, Absent, <<1>>) }

RawItem(t, v, l, c, d, p) ==
    [video_id |-> 0, title |-> t, views |-> v, likes |-> l, comments |-> c,
     duration |-> d, published |-> p, description |-> <<>>, tags |-> <<>>]

\* Records that vary the counts.
CountItems ==
    { RawItem(DefaultTitle, v, l, c, DefaultDuration, DefaultPublished) :
          v \in 0..MaxViews, l \in 0..MaxCount, c \in 0..MaxCount }

\* Records that vary the duration, the title or the date.
VariedItems ==
    { RawItem(DefaultTitle, 1, 0, 0, d, DefaultPublished) : d \in DurationSamples }
    \cup { RawItem(t, 1, 0, 0, DefaultDuration, DefaultPublished) : t \in TitleSamples }
    \cup { RawItem(DefaultTitle, 1, 0, 0, DefaultDuration, p) : p \in PublishedSamples }

\* The identifiers are unique within a run: the position in the list.
Numbered(items) == [i \in 1..Len(items) |-> [items[i] EXCEPT !.video_id = i]]

\* Lists of at most n records: any varied records, or a record with any counts
\* followed by varied records.
RawLists(n) ==
    { Numbered(items) : items \in UNION { [1..k -> VariedItems] : k \in 0..n } }
    \cup { Numbered(<<c>> \o items) :
               c \in CountItems, items \in UNION { [1..k -> VariedItems] : k \in 0..(n - 1) } }

InitProcess ==
    /\ pc = "process_dataframe"
    /\ video_data \in RawLists(MaxRows)
    /\ heap = <<DataFrame(video_data)>>
    /\ df = 1
    /\ ret = [status |-> "pending", ref |-> 0]
    /\ IdleDuration
    /\ IdleCategory
    /\ IdleMain
    /\ IdleKeywords
    /\ IdleExtract

\* df = YouTubeDataProcessor.process_dataframe(df): the column assignments
\* write into the object passed in, and that same object is returned.
CallProcessDataframe ==
    /\ pc = "process_dataframe"
    /\ LET out == process_dataframe(heap[df])
       IN  /\ heap' = [heap EXCEPT ![df] = out.frame]
           /\ ret' = [status |-> out.status,
                      ref    |-> IF out.status = "returned" THEN df ELSE 0]
    /\ pc' = "returned"
    /\ UNCHANGED <<video_data, df, durVars, catVars, mainVars, kwVars, extVars>>

NextProcess == CallProcessDataframe

SpecProcess == InitProcess /\ [][NextProcess]_vars

(***************************************************************************)
(* C3 - C7                                                                 *)
(***************************************************************************)
Returned == pc = "returned" /\ ret.status = "returned"

Max(a, b) == IF a >= b THEN a ELSE b

OutRows == heap[ret.ref].rows

\* C3: for every record, likes_per_view = likes / max(views, 1),
\* comments_per_view = comments / max(views, 1) and engagement_rate =
\* (likes + comments) / max(views, 1); the three are defined (the denominator
\* is positive) and non-negative, also when views = 0, and the counts
\* themselves are not altered by the guard.
C3_ZeroGuardedRatios ==
    Returned =>
        \A i \in 1..Len(video_data) :
            LET r == video_data[i]
                o == OutRows[i]
            IN  /\ o.likes_per_view = Ratio(r.likes, Max(r.views, 1))
                /\ o.comments_per_view = Ratio(r.comments, Max(r.views, 1))
                /\ o.engagement_rate = Ratio(r.likes + r.comments, Max(r.views, 1))
                /\ \A m \in {o.likes_per_view, o.comments_per_view, o.engagement_rate} :
                       m.den > 0 /\ m.num >= 0
                /\ o.views = r.views /\ o.likes = r.likes /\ o.comments = r.comments

\* A record with no views and one like has been processed.
C3_Witness ==
    /\ Returned
    /\ \E i \in 1..Len(video_data) :
           /\ video_data[i].views = 0
           /\ video_data[i].likes = 1
           /\ OutRows[i].likes_per_view = Ratio(1, 1)

\* The intervals of the specification, in minutes: [edge i, edge i+1)
BucketEdgesMin == <<0, 5, 15, 30, 60>>

\* sec seconds are in [edge i, edge i+1) minutes
InHalfOpen(i, sec) ==
    /\ BucketEdgesMin[i] * 60 <= sec
    /\ i = 5 \/ sec < BucketEdgesMin[i + 1] * 60

\* C4: a positive duration_minutes is bucketed by the half-open intervals
\* [0,5), [5,15), [15,30), [30,60), [60,inf), labelled Very Short, Short, Medium,
\* Long, Very Long: a value on a boundary (5, 15, 30, 60 minutes) is in the upper
\* bucket, so exactly 5.0 minutes is Short.  (A duration of 0 is the case of C5.)
C4_HalfOpenBuckets ==
    Returned =>
        \A i \in 1..Len(OutRows) : \A b \in 1..5 :
            OutRows[i].duration_sec > 0 /\ InHalfOpen(b, OutRows[i].duration_sec)
                => OutRows[i].duration_category = labels[b]

\* C5: every record has a bucket that is one of the five size classes, also a
\* record whose duration is 0 seconds.
C5_BucketAlwaysAssigned ==
    Returned =>
        \A i \in 1..Len(OutRows) :
            OutRows[i].duration_category \in { labels[b] : b \in 1..5 }

\* C6: for every list of raw records, the empty list included, the call
\* completes without error and the table has one row per record, in order.
C6_RowsPreserved ==
    pc = "returned" =>
        /\ ret.status = "returned"
        /\ Len(heap[ret.ref].rows) = Len(video_data)
        /\ \A i \in 1..Len(video_data) : heap[ret.ref].rows[i].video_id = video_data[i].video_id

\* C7: after the call the table passed in has the columns and values it had
\* before, and the table returned is another object.
C7_SideEffectFree ==
    Returned =>
        /\ heap[df] = DataFrame(video_data)
        /\ ret.ref # df

(***************************************************************************)
(* Results of the statistics library.  A float is a number of thousandths  *)
(* or nan; every comparison with nan is false.                             *)
(***************************************************************************)
Float(v) == [nan |-> FALSE, v |-> v]

NaNFloat == [nan |-> TRUE, v |-> 0]

\* x < bound, for a float x and a bound in thousandths
Less(x, bound) == ~x.nan /\ x.v < bound

\* The literal 0.05, in thousandths.
P05 == 50

\* alpha = 0.05 of the category comparison
alpha == P05

\* The p-values a test can report: just below and at the threshold.
PValueSamples == { Float(P05 - 1), Float(P05) }

\* pearsonr(x, y) -> (correlation, p-value); (nan, nan) on constant input
PearsonSamples ==
    { [corr |-> Float(c), p |-> p] : c \in {-500, 500}, p \in PValueSamples }
    \cup { [corr |-> Float(0), p |-> Float(1000)], [corr |-> NaNFloat, p |-> NaNFloat] }

(***************************************************************************)
(* YouTubeAnalytics: the table columns the tests read.                     *)
(***************************************************************************)
\* self.df[self.df[column] == value]['views'].values
ViewsWhere(rows, column, value) ==
    LET RECURSIVE Pick(_)
        Pick(i) == IF i > Len(rows) THEN <<>>
                   ELSE IF rows[i][column] = value THEN <<rows[i].views>> \o Pick(i + 1)
                   ELSE Pick(i + 1)
    IN  Pick(1)

RECURSIVE SumSeq(_)
SumSeq(xs) == IF xs = <<>> THEN 0 ELSE Head(xs) + SumSeq(Tail(xs))

RECURSIVE SumSquares(_)
SumSquares(xs) == IF xs = <<>> THEN 0 ELSE Head(xs) * Head(xs) + SumSquares(Tail(xs))

\* ndarray.mean(), as the quotient sum / n
Mean(xs) == Ratio(SumSeq(xs), Len(xs))

\* a > b for two means with positive denominators
MeanGreater(a, b) == a.num * b.den > b.num * a.den

(***************************************************************************)
(* test_duration_engagement_hypothesis                                     *)
(***************************************************************************)
\* The conclusion printed by the test.
H1Conclusion(corr_engagement, p_engagement) ==
    IF Less(p_engagement, P05)
    THEN IF Less(corr_engagement, 0) THEN "HYPOTHESIS SUPPORTED"
         ELSE "HYPOTHESIS REJECTED: Longer videos have higher engagement"
    ELSE "HYPOTHESIS REJECTED: No significant correlation found"

\* pearsonr raises ValueError on fewer than 2 observations; r is what it
\* returns for duration_sec against engagement_rate otherwise.  (The results for
\* likes_per_view and comments_per_view are printed and stored, and read by
\* nothing.)
test_duration_engagement_hypothesis(rows, r) ==
    IF Len(rows) < 2
    THEN [status |-> "ValueError", results |-> None, printed |-> ""]
    ELSE [status  |-> "returned",
          results |-> [type |-> "dict", engagement_correlation |-> r.corr,
                       engagement_p_value |-> r.p],
          printed |-> H1Conclusion(r.corr, r.p)]

(***************************************************************************)
(* test_day_of_week_hypothesis                                             *)
(***************************************************************************)
day_groups(rows) == [i \in 0..6 |-> ViewsWhere(rows, "day_of_week", i)]

\* f_oneway(*groups).pvalue: nan when a group is empty or when every group has
\* one observation, TypeError when there are fewer than two groups.
FOnewaySamples(groups) ==
    IF \/ \E g \in DOMAIN groups : groups[g] = <<>>
       \/ \A g \in DOMAIN groups : Len(groups[g]) = 1
    THEN {NaNFloat}
    ELSE PValueSamples \cup {NaNFloat}

\* The days of the table, by their mean views: a day of highest mean and a day
\* of lowest mean (idxmax, idxmin of the sorted day_means).
DaysPresent(rows) == { rows[i].day_name : i \in 1..Len(rows) }

DayMean(rows, day) == Mean(ViewsWhere(rows, "day_name", day))

best_day(rows) ==
    CHOOSE d \in DaysPresent(rows) :
        \A o \in DaysPresent(rows) : ~MeanGreater(DayMean(rows, o), DayMean(rows, d))

worst_day(rows) ==
    CHOOSE d \in DaysPresent(rows) :
        \A o \in DaysPresent(rows) : ~MeanGreater(DayMean(rows, d), DayMean(rows, o))

\* A faulty test, for the sensitivity of C12: the post-hoc analysis and the
\* recommendation do not wait for a significant ANOVA.
test_day_of_week_hypothesis_always_posthoc(rows, p_value) ==
    [results |-> [type |-> "dict", p_value |-> p_value],
     printed |-> IF Less(p_value, P05) THEN "HYPOTHESIS SUPPORTED" ELSE "HYPOTHESIS REJECTED",
     calls   |-> {"h2.f_oneway", "h2.pairwise_tukeyhsd"},
     recommendation |-> <<best_day(rows), worst_day(rows)>>]

test_day_of_week_hypothesis(rows, p_value) ==
    IF Less(p_value, P05)
    THEN [results |-> [type |-> "dict", p_value |-> p_value],
          printed |-> "HYPOTHESIS SUPPORTED",
          calls   |-> {"h2.f_oneway", "h2.pairwise_tukeyhsd"},
          recommendation |-> <<best_day(rows), worst_day(rows)>>]
    ELSE [results |-> [type |-> "dict", p_value |-> p_value],
          printed |-> "HYPOTHESIS REJECTED",
          calls   |-> {"h2.f_oneway"},
          recommendation |-> <<>>]

(***************************************************************************)
(* test_tutorial_vs_career_hypothesis                                      *)
(***************************************************************************)
\* A faulty guard, for the sensitivity of C10: `and` in place of `or`.
InsufficientData_both(n_tutorial, n_career) == n_tutorial < 2 /\ n_career < 2

\* if len(tutorial_videos) < 2 or len(career_videos) < 2
InsufficientData(n_tutorial, n_career) == n_tutorial < 2 \/ n_career < 2

\* n^2 times the variance ndarray.std()**2 of xs (ddof = 0), n = len(xs)
ScaledVariance(xs) == Len(xs) * SumSquares(xs) - SumSeq(xs) * SumSeq(xs)

\* The effect-size label.  With A = sum_t*n_c - sum_c*n_t and
\* PV = V_t*n_c^2 + V_c*n_t^2, Cohen's d squared is 2*A^2 / PV, so |d| < 0.2,
\* 0.5, 0.8 are 50*A^2 < PV, 8*A^2 < PV, 25*A^2 < 8*PV.  With PV = 0 the
\* quotient is inf or nan, no comparison holds, and the label is "large".
effect_interpretation(tutorial_views, career_views) ==
    LET nt == Len(tutorial_views)
        nc == Len(career_views)
        A  == SumSeq(tutorial_views) * nc - SumSeq(career_views) * nt
        PV == ScaledVariance(tutorial_views) * nc * nc
                + ScaledVariance(career_views) * nt * nt
    IN  IF PV > 0 /\ 50 * A * A < PV THEN "negligible"
        ELSE IF PV > 0 /\ 8 * A * A < PV THEN "small"
        ELSE IF PV > 0 /\ 25 * A * A < 8 * PV THEN "medium"
        ELSE "large"

\* The conclusion printed by the test.
H3Conclusion(u_pvalue, tutorial_mean, career_mean) ==
    IF Less(u_pvalue, alpha)
    THEN IF MeanGreater(tutorial_mean, career_mean)
         THEN "HYPOTHESIS SUPPORTED"
         ELSE "HYPOTHESIS REJECTED: Career videos get SIGNIFICANTLY MORE views"
    ELSE "HYPOTHESIS REJECTED: No significant difference"

\* t_pvalue and u_pvalue are what ttest_ind and mannwhitneyu report.
test_tutorial_vs_career_hypothesis(rows, t_pvalue, u_pvalue) ==
    LET tutorial_views == ViewsWhere(rows, "category", "Tutorial")
        career_views   == ViewsWhere(rows, "category", "Career")
    IN  IF InsufficientData(Len(tutorial_views), Len(career_views))
        THEN [results |-> None, printed |-> "Insufficient data for comparison",
              calls |-> {}]
        ELSE [results |->
                  [type |-> "dict",
                   tutorial_count |-> Len(tutorial_views),
                   career_count |-> Len(career_views),
                   tutorial_mean_views |-> Mean(tutorial_views),
                   career_mean_views |-> Mean(career_views),
                   t_pvalue |-> t_pvalue,
                   u_pvalue |-> u_pvalue,
                   effect_size |-> effect_interpretation(tutorial_views, career_views),
                   hypothesis_supported |->
                       Less(u_pvalue, alpha)
                         /\ MeanGreater(Mean(tutorial_views), Mean(career_views))],
              printed |-> H3Conclusion(u_pvalue, Mean(tutorial_views), Mean(career_views)),
              calls |-> {"h3.ttest_ind", "h3.mannwhitneyu"}]

(***************************************************************************)
(* compare_video_categories                                                *)
(***************************************************************************)
\* self.df['category'].unique()
Categories(rows) == { rows[i].category : i \in 1..Len(rows) }

\* f_oneway needs two groups: with one category it raises TypeError.
compare_video_categories(rows, p_value) ==
    IF Cardinality(Categories(rows)) < 2
    THEN [status |-> "TypeError", printed |-> ""]
    ELSE [status |-> "returned",
          printed |-> IF Less(p_value, P05) THEN "Significant differences exist"
                      ELSE "No significant differences"]

(***************************************************************************)
(* analyze_keyword_frequency                                               *)
(***************************************************************************)
\* int(len(self.df) * top_percentile), top_percentile a quotient
threshold(rows, percentile) == (Len(rows) * percentile.num) \div percentile.den

\* The place of row i among the rows by decreasing views, rows of equal views
\* in their original order (keep='first').
ViewsRank(rows, i) ==
    1 + Cardinality({ j \in 1..Len(rows) :
                          \/ rows[j].views > rows[i].views
                          \/ rows[j].views = rows[i].views /\ j < i })

\* self.df.nlargest(n, 'views'): a new table
nlargest(n, rows) ==
    [k \in 1..(IF n < Len(rows) THEN n ELSE Len(rows)) |->
         rows[CHOOSE i \in 1..Len(rows) : ViewsRank(rows, i) = k]]

\* \w: a letter, a digit or the underscore
IsWordChar(c) ==
    \/ \E i \in 1..26 : c = Upper[i] \/ c = LowerOf[i]
    \/ IsDigit(c)
    \/ c = "_"

\* re.findall(r'\b\w+\b', s): the maximal runs of word characters, in order
findall(s) ==
    LET Flush(word) == IF word = <<>> THEN <<>> ELSE <<word>>
        RECURSIVE Scan(_, _)
        Scan(i, word) ==
            IF i > Len(s) THEN Flush(word)
            ELSE IF IsWordChar(s[i]) THEN Scan(i + 1, Append(word, s[i]))
            ELSE Flush(word) \o Scan(i + 1, <<>>)
    IN  Scan(1, <<>>)

stop_words ==
    { <<"a">>, <<"a", "n">>, <<"t", "h", "e">>, <<"i", "n">>, <<"o", "n">>,
      <<"a", "t">>, <<"t", "o">>, <<"f", "o", "r">>, <<"o", "f">>, <<"a", "n", "d">>,
      <<"o", "r">>, <<"i", "s">>, <<"w", "i", "t", "h">>, <<"f", "r", "o", "m">>,
      <<"|">>, <<"v", "s">>, <<"b", "y">>, <<"a", "r", "e">>, <<"b", "e">>,
      <<"a", "s">>, <<"i", "t">>, <<"t", "h", "i", "s">>, <<"t", "h", "a", "t">>,
      <<"m", "y">>, <<"y", "o", "u", "r">>, <<"i">>, <<"y", "o", "u">> }

\* A faulty filter, for the sensitivity of C15: words of two letters are kept.
KeepWord_two_letters(w) == w \notin stop_words /\ Len(w) >= 2

\* w not in stop_words and len(w) > 2
KeepWord(w) == w \notin stop_words /\ Len(w) > 2

\* for title in top_videos['title']: keywords.extend(findall(title.lower()))
RECURSIVE ExtendAll(_, _)
ExtendAll(top_videos, i) ==
    IF i > Len(top_videos) THEN <<>>
    ELSE findall(lower(top_videos[i].title)) \o ExtendAll(top_videos, i + 1)

\* Counter(words): the distinct words in the order they are first met, each
\* with the number of times it occurs.
Counter(words) ==
    LET first == SelectSeq([i \in 1..Len(words) |-> i],
                           LAMBDA i : \A j \in 1..(i - 1) : words[j] # words[i])
    IN  [k \in 1..Len(first) |->
             <<words[first[k]],
               Cardinality({ j \in 1..Len(words) : words[j] = words[first[k]] })>>]

\* Counter.most_common(n): by decreasing count, equal counts in the order of
\* the counter, the first n.
most_common(counter, n) ==
    LET Place(i) ==
            1 + Cardinality({ j \in 1..Len(counter) :
                                  \/ counter[j][2] > counter[i][2]
                                  \/ counter[j][2] = counter[i][2] /\ j < i })
    IN  [k \in 1..(IF n < Len(counter) THEN n ELSE Len(counter)) |->
             counter[CHOOSE i \in 1..Len(counter) : Place(i) = k]]

analyze_keyword_frequency(rows, percentile) ==
    LET top_videos == nlargest(threshold(rows, percentile), rows)
        kept       == SelectSeq(ExtendAll(top_videos, 1), KeepWord)
    IN  most_common(Counter(kept), 15)

(***************************************************************************)
(* The final summary of main.                                              *)
(***************************************************************************)
SummaryH1(h1) ==
    IF h1 # None /\ Less(h1.engagement_p_value, P05) THEN "Supported" ELSE "Rejected"

SummaryH2(h2) == IF Less(h2.p_value, P05) THEN "Supported" ELSE "Rejected"

\* Nothing is printed for H3 when h3_results is None.
SummaryH3(h3) ==
    IF h3 = None THEN ""
    ELSE IF h3.hypothesis_supported THEN "Supported" ELSE "Rejected"

(***************************************************************************)
(* main.  The tables of a run: at most MaxVideos records, each a Tutorial, *)
(* a Career or an uncategorized title with 1..MaxViews views, in one       *)
(* canonical order (no analysis modelled here reads the row order).        *)
(***************************************************************************)
MainTitles ==
    << <<"S", "Q", "L", " ", "T", "u", "t", "o", "r", "i", "a", "l">>,
       <<"J", "o", "b", " ", "T", "i", "p", "s">>,
       DefaultTitle >>

\* Item k: title (k - 1) \div MaxViews + 1 with ((k - 1) % MaxViews) + 1 views.
MainItem(k) ==
    RawItem(MainTitles[((k - 1) \div MaxViews) + 1], ((k - 1) % MaxViews) + 1, 0, 0,
            DefaultDuration, DefaultPublished)

MainTables(n) ==
    { Numbered([i \in 1..n |-> MainItem(ks[i])]) :
          ks \in { f \in [1..n -> 1..(3 * MaxViews)] :
                       \A i \in 1..(n - 1) : f[i] <= f[i + 1] } }

\* The tables of a large channel: MaxVideos records as above, then PadVideos
\* uncategorized records with 1 view.
PaddedTables ==
    { Numbered(t \o [i \in 1..PadVideos |-> MainItem(2 * MaxViews + 1)]) :
          t \in MainTables(MaxVideos) }

Init ==
    /\ pc = "main"
    /\ IdleMain
    /\ IdleKeywords
    /\ IdleExtract
    /\ IdleProcess
    /\ IdleDuration
    /\ IdleCategory

Rows == heap[df].rows

\* config = YouTubeConfig(): ValueError when the API key is not set.
Configure ==
    /\ pc = "main"
    /\ \E api_key \in BOOLEAN :
           pc' = IF api_key THEN "get_upload_playlist_id" ELSE "raised"
    /\ UNCHANGED <<mainVars, procVars, durVars, catVars, kwVars, extVars>>

\* playlist_id = extractor.get_upload_playlist_id(); None on any error.
GetUploadPlaylistId ==
    /\ pc = "get_upload_playlist_id"
    /\ \E id \in {"None", "UU"} :
           /\ playlist_id' = id
           /\ pc' = IF id = "None" THEN "halted" ELSE "get_all_video_ids"
           /\ output' = IF id = "None"
                        THEN [output EXCEPT !.failure = "Failed to fetch playlist ID"]
                        ELSE output
    /\ UNCHANGED <<video_ids, csv_written, h1_results, h2_results, h3_results,
                   stat_calls, executed, procVars, durVars, catVars, kwVars, extVars>>

\* video_ids = extractor.get_all_video_ids(playlist_id); [] on any error.
GetAllVideoIds ==
    /\ pc = "get_all_video_ids"
    /\ \E n \in 0..MaxVideos \cup {MaxVideos + PadVideos} :
           /\ video_ids' = [i \in 1..n |-> i]
           /\ pc' = IF n = 0 THEN "halted" ELSE "get_video_details"
           /\ output' = IF n = 0
                        THEN [output EXCEPT !.failure = "Failed to fetch video IDs"]
                        ELSE output
    /\ UNCHANGED <<playlist_id, csv_written, h1_results, h2_results, h3_results,
                   stat_calls, executed, procVars, durVars, catVars, kwVars, extVars>>

\* A faulty step, for the sensitivity of C16: main goes on with an empty list.
GetVideoDetails_no_halt ==
    /\ pc = "get_video_details"
    /\ \E data \in {<<>>} \cup (IF Len(video_ids) <= MaxVideos
                                 THEN MainTables(Len(video_ids)) ELSE PaddedTables) :
           video_data' = data
    /\ pc' = "process"
    /\ UNCHANGED <<mainVars, heap, df, ret, durVars, catVars, kwVars, extVars>>

\* video_data = extractor.get_video_details(video_ids); [] on any error.
GetVideoDetails ==
    /\ pc = "get_video_details"
    /\ \E data \in {<<>>} \cup (IF Len(video_ids) <= MaxVideos
                                 THEN MainTables(Len(video_ids)) ELSE PaddedTables) :
           /\ video_data' = data
           /\ pc' = IF data = <<>> THEN "halted" ELSE "process"
           /\ output' = IF data = <<>>
                        THEN [output EXCEPT !.failure = "Failed to fetch video details"]
                        ELSE output
    /\ UNCHANGED <<playlist_id, video_ids, csv_written, h1_results, h2_results,
                   h3_results, stat_calls, executed, heap, df, ret, durVars, catVars, kwVars, extVars>>

\* df = pd.DataFrame(video_data); df = process_dataframe(df); df.to_csv(...)
ProcessData ==
    /\ pc = "process"
    /\ LET out == process_dataframe(DataFrame(video_data))
       IN  /\ heap' = <<out.frame>>
           /\ df' = 1
           /\ ret' = [status |-> out.status, ref |-> 1]
    /\ csv_written' = TRUE
    /\ executed' = executed \cup {"process_dataframe", "to_csv"}
    /\ pc' = "analysis"
    /\ UNCHANGED <<playlist_id, video_ids, h1_results, h2_results, h3_results, output,
                   stat_calls, video_data, durVars, catVars, kwVars, extVars>>

\* analytics = YouTubeAnalytics(df); generate_summary_stats(); analyze_top_videos()
\* twice; keywords = analytics.analyze_keyword_frequency(top_percentile=0.1):
\* they print and return new tables.
DescriptiveAnalysis ==
    /\ pc = "analysis"
    /\ common_keywords' = analyze_keyword_frequency(Rows, DefaultPercentile)
    /\ executed' = executed \cup {"generate_summary_stats", "analyze_top_videos",
                                  "analyze_keyword_frequency"}
    /\ pc' = "h1"
    /\ UNCHANGED <<playlist_id, video_ids, csv_written, h1_results, h2_results,
                   h3_results, output, stat_calls, top_percentile, procVars, durVars,
                   catVars, extVars>>

\* h1_results = analytics.test_duration_engagement_hypothesis()
TestDurationEngagement ==
    /\ pc = "h1"
    /\ \E r \in PearsonSamples :
           LET out == test_duration_engagement_hypothesis(Rows, r)
           IN  /\ h1_results' = out.results
               /\ output' = [output EXCEPT !.h1 = out.printed]
               /\ pc' = IF out.status = "returned" THEN "h2" ELSE "raised"
               /\ stat_calls' = stat_calls \cup {"h1.pearsonr"}
    /\ executed' = executed \cup {"test_duration_engagement_hypothesis"}
    /\ UNCHANGED <<playlist_id, video_ids, csv_written, h2_results, h3_results,
                   procVars, durVars, catVars, kwVars, extVars>>

\* analytics.test_day_of_week_hypothesis(): what the call prints, returns and
\* calls in the library.
RunTestDayOfWeek ==
    /\ \E p_value \in FOnewaySamples(day_groups(Rows)) :
           LET out == test_day_of_week_hypothesis(Rows, p_value)
           IN  /\ h2_results' = out.results
               /\ output' = [output EXCEPT !.h2 = out.printed,
                                           !.recommendation = out.recommendation]
               /\ stat_calls' = stat_calls \cup out.calls
    /\ executed' = executed \cup {"test_day_of_week_hypothesis"}

\* h2_results = analytics.test_day_of_week_hypothesis()
TestDayOfWeek ==
    /\ pc = "h2"
    /\ RunTestDayOfWeek
    /\ pc' = "h3"
    /\ UNCHANGED <<playlist_id, video_ids, csv_written, h1_results, h3_results,
                   procVars, durVars, catVars, kwVars, extVars>>

\* h3_results = analytics.test_tutorial_vs_career_hypothesis()
TestTutorialVsCareer ==
    /\ pc = "h3"
    /\ \E t_pvalue \in PValueSamples, u_pvalue \in PValueSamples :
           LET out == test_tutorial_vs_career_hypothesis(Rows, t_pvalue, u_pvalue)
           IN  /\ h3_results' = out.results
               /\ output' = [output EXCEPT !.h3 = out.printed]
               /\ stat_calls' = stat_calls \cup out.calls
    /\ executed' = executed \cup {"test_tutorial_vs_career_hypothesis"}
    /\ pc' = "compare"
    /\ UNCHANGED <<playlist_id, video_ids, csv_written, h1_results, h2_results,
                   procVars, durVars, catVars, kwVars, extVars>>

\* analytics.compare_video_categories()
CompareVideoCategories ==
    /\ pc = "compare"
    /\ \E p_value \in PValueSamples \cup {NaNFloat} :
           LET out == compare_video_categories(Rows, p_value)
           IN  /\ output' = [output EXCEPT !.categories = out.printed]
               /\ pc' = IF out.status = "returned" THEN "visualize" ELSE "raised"
    /\ stat_calls' = stat_calls \cup {"categories.f_oneway"}
    /\ executed' = executed \cup {"compare_video_categories"}
    /\ UNCHANGED <<playlist_id, video_ids, csv_written, h1_results, h2_results,
                   h3_results, procVars, durVars, catVars, kwVars, extVars>>

\* visualizer = YouTubeVisualizer(df) and the six plots.  The plotting library
\* is outside the repository and its calls are taken to return; in
\* plot_top_keywords, `words, counts = zip(*keywords)` raises ValueError on an
\* empty list of keywords, before anything is drawn.
Visualize ==
    /\ pc = "visualize"
    /\ executed' = executed
                      \cup {"plot_duration_distribution", "plot_correlation_heatmap",
                            "plot_quarterly_trends", "plot_day_of_week_performance",
                            "plot_top_keywords"}
                      \cup (IF common_keywords = <<>> THEN {}
                            ELSE {"plot_category_comparison"})
    /\ pc' = IF common_keywords = <<>> THEN "raised" ELSE "summary"
    /\ UNCHANGED <<playlist_id, video_ids, csv_written, h1_results, h2_results,
                   h3_results, output, stat_calls, procVars, durVars, catVars, kwVars, extVars>>

\* The HYPOTHESIS TESTING SUMMARY and return df, analytics, visualizer
HypothesisSummary ==
    /\ pc = "summary"
    /\ output' = [output EXCEPT !.summary_h1 = SummaryH1(h1_results),
                                !.summary_h2 = SummaryH2(h2_results),
                                !.summary_h3 = SummaryH3(h3_results)]
    /\ pc' = "done"
    /\ UNCHANGED <<playlist_id, video_ids, csv_written, h1_results, h2_results,
                   h3_results, stat_calls, executed, procVars, durVars, catVars, kwVars, extVars>>

Next ==
    \/ Configure
    \/ GetUploadPlaylistId
    \/ GetAllVideoIds
    \/ GetVideoDetails
    \/ ProcessData
    \/ DescriptiveAnalysis
    \/ TestDurationEngagement
    \/ TestDayOfWeek
    \/ TestTutorialVsCareer
    \/ CompareVideoCategories
    \/ Visualize
    \/ HypothesisSummary

Spec == Init /\ [][Next]_vars

(***************************************************************************)
(* C8 - C10                                                                *)
(***************************************************************************)
H1Supportable ==
    /\ Less(h1_results.engagement_p_value, P05)
    /\ Less(h1_results.engagement_correlation, 0)

\* C8: wherever the outcome of hypothesis 1 is stated, by the test and by the
\* final summary of main, it is "supported" only when the engagement
\* correlation has p < 0.05 and is negative, and "rejected" otherwise.
C8_H1NeedsNegativeCorrelation ==
    /\ output.h1 # "" =>
           (output.h1 = "HYPOTHESIS SUPPORTED" <=> H1Supportable)
    /\ output.summary_h1 # "" =>
           (output.summary_h1 = "Supported" <=> H1Supportable)

TutorialViews == ViewsWhere(Rows, "category", "Tutorial")
CareerViews == ViewsWhere(Rows, "category", "Career")

H3Ran == pc \in {"compare", "visualize", "summary", "done"} \/ (pc = "raised" /\ output.h3 # "")

\* sum_a / n_a > sum_b / n_b
HigherMean(a, b) == SumSeq(a) * Len(b) > SumSeq(b) * Len(a)

\* C9: with at least 2 records in each group the conclusion follows the
\* Mann-Whitney p-value alone: "Tutorial exceeds Career" iff p < 0.05 and
\* mean_T > mean_C; the reverse conclusion only if p < 0.05 and mean_T < mean_C;
\* in every other case, p < 0.05 with equal means included, "no significant
\* difference".
C9_MannWhitneyDecides ==
    H3Ran /\ h3_results # None =>
        LET sig == Less(h3_results.u_pvalue, alpha)
            up  == HigherMean(TutorialViews, CareerViews)
            dn  == HigherMean(CareerViews, TutorialViews)
        IN  /\ output.h3 = "HYPOTHESIS SUPPORTED" <=> sig /\ up
            /\ h3_results.hypothesis_supported <=> sig /\ up
            /\ output.h3 = "HYPOTHESIS REJECTED: Career videos get SIGNIFICANTLY MORE views"
                   => sig /\ dn
            /\ ~(sig /\ up) /\ ~(sig /\ dn)
                   => output.h3 = "HYPOTHESIS REJECTED: No significant difference"

\* C10: with fewer than 2 Tutorial or fewer than 2 Career records the test
\* returns None - no p-value, no statistic, no conclusion - without calling a
\* statistical test, and the final summary of main prints no H3 result.
C10_InsufficientDataIsIndeterminate ==
    H3Ran /\ (Len(TutorialViews) < 2 \/ Len(CareerViews) < 2) =>
        /\ h3_results = None
        /\ output.h3 = "Insufficient data for comparison"
        /\ stat_calls \cap {"h3.ttest_ind", "h3.mannwhitneyu"} = {}
        /\ pc = "done" => output.summary_h3 = ""

\* main has printed its summary for a table with two Tutorial records and one
\* Career record.
C10_Witness ==
    /\ pc = "done"
    /\ Len(TutorialViews) = 2
    /\ Len(CareerViews) = 1
    /\ h3_results = None
    /\ output.summary_h3 = ""

(***************************************************************************)
(* test_day_of_week_hypothesis on tables that cover the week: a record for *)
(* each day from Monday 2024-01-01 to Sunday 2024-01-07, the first three   *)
(* with any views, and then either one more record on any day, or one day  *)
(* taken away.                                                             *)
(***************************************************************************)
WeekItem(i, v) ==
    RawItem(DefaultTitle, v, 0, 0, DefaultDuration, Date(2024, 1, 1 + i))

WeekViews ==
    { [i \in 0..6 |-> IF i <= 2 THEN f[i] ELSE 1] : f \in [0..2 -> 1..MaxViews] }

Week(w) == [k \in 1..7 |-> WeekItem(k - 1, w[k - 1])]

WeekWithout(w, d) ==
    [k \in 1..6 |-> LET i == IF k - 1 < d THEN k - 1 ELSE k IN WeekItem(i, w[i])]

WeekTables ==
    { Numbered(Week(w)) : w \in WeekViews }
    \cup { Numbered(Week(w) \o <<WeekItem(d, v)>>) :
               w \in WeekViews, d \in 0..6, v \in 1..MaxViews }
    \cup { Numbered(WeekWithout(w, d)) : w \in WeekViews, d \in 0..6 }

\* analytics = YouTubeAnalytics(process_dataframe(pd.DataFrame(video_data)))
InitDayOfWeek ==
    /\ pc = "test_day_of_week_hypothesis"
    /\ video_data \in WeekTables
    /\ heap = <<process_dataframe(DataFrame(video_data)).frame>>
    /\ df = 1
    /\ ret = [status |-> "returned", ref |-> 1]
    /\ IdleDuration
    /\ IdleCategory
    /\ IdleMain
    /\ IdleKeywords
    /\ IdleExtract

CallTestDayOfWeek ==
    /\ pc = "test_day_of_week_hypothesis"
    /\ RunTestDayOfWeek
    /\ pc' = "returned"
    /\ UNCHANGED <<playlist_id, video_ids, csv_written, h1_results, h3_results,
                   procVars, durVars, catVars, kwVars, extVars>>

NextDayOfWeek == CallTestDayOfWeek

SpecDayOfWeek == InitDayOfWeek /\ [][NextDayOfWeek]_vars

(***************************************************************************)
(* C11, C12                                                                *)
(***************************************************************************)
SomeDayEmpty == \E i \in 0..6 : ViewsWhere(Rows, "day_of_week", i) = <<>>

\* C11: on a table in which some day of the week has no record the test states
\* no conclusion about the hypothesis: it reports neither "rejected" nor
\* "supported", but that the data is insufficient.
C11_EmptyDayIsInsufficientData ==
    pc = "returned" /\ SomeDayEmpty =>
        output.h2 \notin {"HYPOTHESIS REJECTED", "HYPOTHESIS SUPPORTED"}

DayViews(day) == ViewsWhere(Rows, "day_name", day)

\* C12: the Tukey post-hoc analysis and the best/worst-day recommendation happen
\* exactly when the ANOVA, which always runs, reports p < 0.05; with p >= 0.05
\* (or nan) the hypothesis is rejected and nothing more runs.  The recommended
\* day has the highest mean views of the days present and the worst day the
\* lowest.
C12_PostHocOnlyWhenSignificant ==
    pc = "returned" =>
        LET sig == ~h2_results.p_value.nan /\ h2_results.p_value.v < P05
        IN  /\ "h2.f_oneway" \in stat_calls
            /\ "h2.pairwise_tukeyhsd" \in stat_calls <=> sig
            /\ output.recommendation # <<>> <=> sig
            /\ output.h2 = (IF sig THEN "HYPOTHESIS SUPPORTED" ELSE "HYPOTHESIS REJECTED")
            /\ sig =>
                   \A i \in 1..Len(Rows) :
                       /\ ~HigherMean(DayViews(Rows[i].day_name),
                                      DayViews(output.recommendation[1]))
                       /\ ~HigherMean(DayViews(output.recommendation[2]),
                                      DayViews(Rows[i].day_name))

\* The test has recommended Tuesday for a table of eight records in which
\* Tuesday alone has the highest mean.
C12_Witness ==
    /\ pc = "returned"
    /\ Len(Rows) = 8
    /\ h2_results.p_value = Float(P05 - 1)
    /\ "h2.pairwise_tukeyhsd" \in stat_calls
    /\ output.recommendation # <<>>
    /\ output.recommendation[1] = "Tuesday"
    /\ \A i \in 1..Len(Rows) :
           Rows[i].day_name # "Tuesday" =>
               HigherMean(DayViews("Tuesday"), DayViews(Rows[i].day_name))

(***************************************************************************)
(* C13                                                                     *)
(***************************************************************************)
\* n^2 times the sum of the squared deviations of xs from their mean
SquaredDeviations(xs) ==
    LET n == Len(xs)
        RECURSIVE D(_)
        D(i) == IF i > n THEN 0
                ELSE (n * xs[i] - SumSeq(xs)) * (n * xs[i] - SumSeq(xs)) + D(i + 1)
    IN  D(1)

\* d = (mean_T - mean_C) / sqrt((sd_T^2 + sd_C^2) / 2), so that with
\* DiffNum = sum_T*n_C - sum_C*n_T and
\* VarNum = SquaredDeviations(T)*n_C^3 + SquaredDeviations(C)*n_T^3,
\* d^2 = 2 * DiffNum^2 * n_T * n_C / VarNum.
DiffNum == SumSeq(TutorialViews) * Len(CareerViews) - SumSeq(CareerViews) * Len(TutorialViews)

VarNum ==
    SquaredDeviations(TutorialViews) * Len(CareerViews) * Len(CareerViews) * Len(CareerViews)
      + SquaredDeviations(CareerViews) * Len(TutorialViews) * Len(TutorialViews)
          * Len(TutorialViews)

\* |d| < num / den.  With a pooled standard deviation of 0, d is infinite when
\* the means differ and is no number when they are equal: it is below nothing.
AbsDBelow(num, den) ==
    /\ VarNum > 0
    /\ 2 * DiffNum * DiffNum * Len(TutorialViews) * Len(CareerViews) * den * den
           < num * num * VarNum

\* |d| >= num / den: d is a number, or infinite, and not below the threshold.
AbsDAtLeast(num, den) ==
    \/ VarNum = 0 /\ DiffNum # 0
    \/ VarNum > 0 /\ ~AbsDBelow(num, den)

\* C13: for groups of at least 2 records each, groups of all-equal views
\* included, the effect-size label is "negligible" iff |d| < 0.2, "small" iff
\* 0.2 <= |d| < 0.5, "medium" iff 0.5 <= |d| < 0.8 and "large" iff |d| >= 0.8.
C13_EffectSizeLabel ==
    H3Ran /\ h3_results # None =>
        LET label == h3_results.effect_size
        IN  /\ label = "negligible" <=> AbsDBelow(1, 5)
            /\ label = "small" <=> AbsDAtLeast(1, 5) /\ AbsDBelow(1, 2)
            /\ label = "medium" <=> AbsDAtLeast(1, 2) /\ AbsDBelow(4, 5)
            /\ label = "large" <=> AbsDAtLeast(4, 5)

(***************************************************************************)
(* analyze_keyword_frequency on its own: tables of at most MaxRows records *)
(* with one of four titles and 1..MaxViews views, and three fractions.     *)
(***************************************************************************)
KeywordTitles ==
    <<
      <<"S", "Q", "L", " ", "T", "u", "t", "o", "r", "i", "a", "l", " ", "f", "o", "r",
        " ", "B", "e", "g", "i", "n", "n", "e", "r", "s">>,
      <<"P", "y", "t", "h", "o", "n", " ", "T", "u", "t", "o", "r", "i", "a", "l", " ",
        "B", "a", "s", "i", "c", "s">>,
      <<"S", "Q", "L", " ", "T", "u", "t", "o", "r", "i", "a", "l", " ", "D", "A", "X",
        " ", "E", "T", "L", " ", "C", "S", "V", " ", "A", "P", "I", " ", "A", "W", "S",
        " ", "G", "C", "P", " ", "G", "i", "t", " ", "V", "i", "m", " ", "Z", "s", "h",
        " ", "A", "w", "k", " ", "S", "e", "d", " ", "T", "m", "u", "x", " ", "L", "u",
        "a", " ", "E", "l", "m", " ", "N", "i", "x">>,
      <<"T", "o", "p", "_", "1", "0", " ", "S", "Q", "L", " ", "t", "i", "p", "s", " ",
        "|", " ", "m", "y", " ", "Q", "&", "A", " ", "v", "s", " ", "A", "I", ":", " ",
        "S", "Q", "L", ",", " ", "s", "q", "l", "!">>
    >>

KeywordItems ==
    { RawItem(KeywordTitles[t], v, 0, 0, DefaultDuration, DefaultPublished) :
          t \in 1..Len(KeywordTitles), v \in 1..MaxViews }

KeywordTables ==
    { Numbered(items) : items \in UNION { [1..k -> KeywordItems] : k \in 1..MaxRows } }

\* top_percentile: the default 0.1, 0.5 and 1.0
PercentileSamples == { DefaultPercentile, [num |-> 1, den |-> 2], [num |-> 1, den |-> 1] }

InitKeywords ==
    /\ pc = "analyze_keyword_frequency"
    /\ video_data \in KeywordTables
    /\ heap = <<process_dataframe(DataFrame(video_data)).frame>>
    /\ df = 1
    /\ ret = [status |-> "returned", ref |-> 1]
    /\ IdleDuration
    /\ IdleCategory
    /\ IdleMain
    /\ IdleKeywords
    /\ IdleExtract

CallAnalyzeKeywordFrequency ==
    /\ pc = "analyze_keyword_frequency"
    /\ \E percentile \in PercentileSamples :
           /\ top_percentile' = percentile
           /\ common_keywords' = analyze_keyword_frequency(Rows, percentile)
    /\ executed' = executed \cup {"analyze_keyword_frequency"}
    /\ pc' = "returned"
    /\ UNCHANGED <<playlist_id, video_ids, csv_written, h1_results, h2_results,
                   h3_results, output, stat_calls, procVars, durVars, catVars, extVars>>

NextKeywords == CallAnalyzeKeywordFrequency

SpecKeywords == InitKeywords /\ [][NextKeywords]_vars

(***************************************************************************)
(* C14, C15                                                                *)
(***************************************************************************)
RowTitles == [i \in 1..Len(Rows) |-> Rows[i].title]

\* C14: with the default fraction, on the table whose titles are "SQL Tutorial
\* for Beginners" and "Python Tutorial Basics", the returned list contains
\* "tutorial" with count 2.
C14_TutorialCountedTwice ==
    /\ pc = "returned"
    /\ top_percentile = DefaultPercentile
    /\ RowTitles = <<KeywordTitles[1], KeywordTitles[2]>>
    => \E k \in 1..Len(common_keywords) :
           common_keywords[k] = <<<<"t", "u", "t", "o", "r", "i", "a", "l">>, 2>>

\* The number of records ranked before record i: by decreasing views, equal
\* views in the original order.
Ahead(i) ==
    Cardinality({ j \in 1..Len(Rows) :
                      \/ Rows[j].views > Rows[i].views
                      \/ Rows[j].views = Rows[i].views /\ j < i })

\* The records analysed: the top fraction, rounded down to whole records.
Selected ==
    { i \in 1..Len(Rows) :
          (Ahead(i) + 1) * top_percentile.den <= Len(Rows) * top_percentile.num }

\* The positions at which w stands as a whole word in text.
WordAt(w, text) ==
    { k \in 1..(Len(text) - Len(w) + 1) :
          /\ \A c \in 1..Len(w) : text[k + c - 1] = w[c]
          /\ k = 1 \/ ~IsWordChar(text[k - 1])
          /\ k + Len(w) > Len(text) \/ ~IsWordChar(text[k + Len(w)]) }

Least(S) == CHOOSE a \in S : \A b \in S : a <= b

\* The sequence f, as a tuple whose elements are computed once.
Tuple(f) == SubSeq(f, 1, Len(f))

\* C15: the list has at most 15 entries; each token is lower-case, is no stop
\* word and has more than 2 characters; its count is the number of its
\* occurrences in the selected titles; the counts do not increase, and of two
\* tokens with equal counts the one met first comes first.
C15_KeywordList ==
    pc = "returned" =>
        LET texts  == Tuple([i \in 1..Len(Rows) |->
                          Tuple([k \in 1..Len(Rows[i].title) |->
                                     LowerChar(Rows[i].title[k])])])
            ahead  == Tuple([i \in 1..Len(Rows) |-> Ahead(i)])
            chosen == Selected
            at     == Tuple([k \in 1..Len(common_keywords) |->
                          Tuple([i \in 1..Len(Rows) |->
                              IF i \in chosen THEN WordAt(common_keywords[k][1], texts[i])
                              ELSE {}])])
            RECURSIVE Occurrences(_, _)
            Occurrences(k, i) ==
                IF i > Len(Rows) THEN 0
                ELSE Cardinality(at[k][i]) + Occurrences(k, i + 1)
            \* where token k is first met: the rank of the record, the position
            met == Tuple([k \in 1..Len(common_keywords) |->
                       LET r == Least({ ahead[i] : i \in { h \in chosen : at[k][h] # {} } })
                           i == CHOOSE h \in chosen : ahead[h] = r
                       IN  <<r, Least(at[k][i])>>])
        IN  /\ Len(common_keywords) <= 15
            /\ \A k \in 1..Len(common_keywords) :
                   LET w == common_keywords[k][1]
                   IN  /\ \A c \in 1..Len(w) : \A u \in 1..26 : w[c] # Upper[u]
                       /\ w \notin stop_words
                       /\ Len(w) > 2
                       /\ common_keywords[k][2] = Occurrences(k, 1)
                       /\ common_keywords[k][2] >= 1
            /\ \A k \in 1..(Len(common_keywords) - 1) :
                   \/ common_keywords[k][2] > common_keywords[k + 1][2]
                   \/ /\ common_keywords[k][2] = common_keywords[k + 1][2]
                      /\ \/ met[k][1] < met[k + 1][1]
                         \/ met[k][1] = met[k + 1][1] /\ met[k][2] < met[k + 1][2]

\* Both records of a table with the first and the third title have been
\* analysed: "sql" and "tutorial" occur twice, fifteen more tokens once, and
\* the list is cut to 15 entries in the order of first occurrence.
C15_Witness ==
    /\ pc = "returned"
    /\ RowTitles = <<KeywordTitles[1], KeywordTitles[3]>>
    /\ Rows[1].views = Rows[2].views
    /\ top_percentile = [num |-> 1, den |-> 1]
    /\ Len(common_keywords) = 15
    /\ common_keywords[1] = <<<<"s", "q", "l">>, 2>>
    /\ common_keywords[2] = <<<<"t", "u", "t", "o", "r", "i", "a", "l">>, 2>>
    /\ common_keywords[3] = <<<<"b", "e", "g", "i", "n", "n", "e", "r", "s">>, 1>>
    /\ common_keywords[4] = <<<<"d", "a", "x">>, 1>>

(***************************************************************************)
(* C16, C17                                                                *)
(***************************************************************************)
Extracting == pc \in {"main", "get_upload_playlist_id", "get_all_video_ids", "get_video_details"}

\* C16: when the playlist id, the list of video ids or the list of video
\* details is absent, main reports the failure and halts: the feature
\* derivation, the CSV write, the analyses, the hypothesis tests and the plots
\* are never executed in that run.
C16_HaltsBeforeDerivation ==
    /\ pc = "halted" =>
           /\ playlist_id = "None" \/ video_ids = <<>> \/ video_data = <<>>
           /\ output.failure # ""
    /\ ~Extracting /\ pc # "raised" /\ (playlist_id = "None" \/ video_ids = <<>> \/ video_data = <<>>)
           => pc = "halted"
    /\ playlist_id = "None" \/ video_ids = <<>> \/ video_data = <<>> =>
           /\ executed = {}
           /\ ~csv_written
           /\ heap = <<>> /\ ret.status = "pending"
           /\ stat_calls = {}
           /\ common_keywords = <<>>
           /\ h1_results = None /\ h2_results = None /\ h3_results = None
           /\ output = [NoOutput EXCEPT !.failure = output.failure]

\* main has halted on an empty list of video details.
C16_Witness ==
    /\ pc = "halted"
    /\ playlist_id # "None"
    /\ video_ids # <<>>
    /\ video_data = <<>>
    /\ output.failure = "Failed to fetch video details"
    /\ executed = {}

AnalysisProcedures ==
    {"generate_summary_stats", "analyze_top_videos", "analyze_keyword_frequency",
     "test_duration_engagement_hypothesis", "test_day_of_week_hypothesis",
     "test_tutorial_vs_career_hypothesis", "compare_video_categories"}

\* C17: an exception raised inside one analysis procedure does not end the
\* run of main: whenever the run has ended after the analysis began, every
\* analysis procedure has been called.
C17_ExceptionsContained ==
    pc \in {"raised", "done"} /\ executed \cap AnalysisProcedures # {} =>
        AnalysisProcedures \subseteq executed

(***************************************************************************)
(* YouTubeAnalytics on its own: the procedures called in any order, any    *)
(* number of times, on one analytics object.  heap[df] is the table the    *)
(* object holds in self.df; a table a procedure returns is a new object,   *)
(* kept at heap[2] until the next one replaces it.  ret is what the latest *)
(* call returned or raised; the bookkeeping of main stays idle.            *)
(***************************************************************************)
\* A faulty allocation, for the sensitivity of C18: the table of the object is
\* sorted in place on the way.
new_object_sorts_in_place(h, table) ==
    <<[h[1] EXCEPT !.rows = nlargest(Len(h[1].rows), h[1].rows)], table>>

\* The result of nlargest, describe or an indexing expression is a new object
\* beside the table of the analytics object.
new_object(h, table) == <<h[1], table>>

numeric_cols ==
    {"views", "likes", "comments", "duration_sec", "likes_per_view",
     "comments_per_view", "engagement_rate"}

\* self.df[numeric_cols].describe(): of the statistics only the count is kept.
generate_summary_stats(rows) ==
    [columns |-> numeric_cols, rows |-> <<[c \in numeric_cols |-> Len(rows)]>>]

TopVideoColumns ==
    {"title", "views", "likes", "comments", "engagement_rate", "duration_min",
     "category", "published"}

\* self.df.nlargest(n, metric)[[...]], with the default metric='views'
analyze_top_videos(rows, n) ==
    LET top == nlargest(n, rows)
    IN  [columns |-> TopVideoColumns,
         rows    |-> [k \in 1..Len(top) |-> [c \in TopVideoColumns |-> top[k][c]]]]

InitAnalytics ==
    /\ pc = "analytics"
    /\ video_data \in UNION { MainTables(n) : n \in 1..MaxRows }
    /\ heap = <<process_dataframe(DataFrame(video_data)).frame>>
    /\ df = 1
    /\ ret = [status |-> "pending", ref |-> 0]
    /\ IdleDuration
    /\ IdleCategory
    /\ IdleMain
    /\ IdleKeywords
    /\ IdleExtract

Returns(procedure, status, ref, value) ==
    [status |-> status, ref |-> ref, procedure |-> procedure, value |-> value]

InvokeGenerateSummaryStats ==
    /\ pc = "analytics"
    /\ heap' = new_object(heap, generate_summary_stats(Rows))
    /\ ret' = Returns("generate_summary_stats", "returned", 2, None)
    /\ UNCHANGED <<pc, video_data, df, mainVars, durVars, catVars, kwVars, extVars>>

InvokeAnalyzeTopVideos ==
    /\ pc = "analytics"
    /\ \E n \in {1, 10} :
           heap' = new_object(heap, analyze_top_videos(Rows, n))
    /\ ret' = Returns("analyze_top_videos", "returned", 2, None)
    /\ UNCHANGED <<pc, video_data, df, mainVars, durVars, catVars, kwVars, extVars>>

InvokeAnalyzeKeywordFrequency ==
    /\ pc = "analytics"
    /\ \E percentile \in PercentileSamples :
           ret' = Returns("analyze_keyword_frequency", "returned", 0,
                          analyze_keyword_frequency(Rows, percentile))
    /\ UNCHANGED <<pc, video_data, heap, df, mainVars, durVars, catVars, kwVars, extVars>>

InvokeTestDurationEngagement ==
    /\ pc = "analytics"
    /\ \E r \in PearsonSamples :
           LET out == test_duration_engagement_hypothesis(Rows, r)
           IN  ret' = Returns("test_duration_engagement_hypothesis", out.status, 0,
                              <<out.results, out.printed>>)
    /\ UNCHANGED <<pc, video_data, heap, df, mainVars, durVars, catVars, kwVars, extVars>>

InvokeTestDayOfWeek ==
    /\ pc = "analytics"
    /\ \E p_value \in FOnewaySamples(day_groups(Rows)) :
           LET out == test_day_of_week_hypothesis(Rows, p_value)
           IN  ret' = Returns("test_day_of_week_hypothesis", "returned", 0,
                              <<out.results, out.printed, out.recommendation>>)
    /\ UNCHANGED <<pc, video_data, heap, df, mainVars, durVars, catVars, kwVars, extVars>>

InvokeTestTutorialVsCareer ==
    /\ pc = "analytics"
    /\ \E t_pvalue \in PValueSamples, u_pvalue \in PValueSamples :
           LET out == test_tutorial_vs_career_hypothesis(Rows, t_pvalue, u_pvalue)
           IN  ret' = Returns("test_tutorial_vs_career_hypothesis", "returned", 0,
                              <<out.results, out.printed>>)
    /\ UNCHANGED <<pc, video_data, heap, df, mainVars, durVars, catVars, kwVars, extVars>>

InvokeCompareVideoCategories ==
    /\ pc = "analytics"
    /\ \E p_value \in PValueSamples \cup {NaNFloat} :
           LET out == compare_video_categories(Rows, p_value)
           IN  ret' = Returns("compare_video_categories", out.status, 0, out.printed)
    /\ UNCHANGED <<pc, video_data, heap, df, mainVars, durVars, catVars, kwVars, extVars>>

NextAnalytics ==
    \/ InvokeGenerateSummaryStats
    \/ InvokeAnalyzeTopVideos
    \/ InvokeAnalyzeKeywordFrequency
    \/ InvokeTestDurationEngagement
    \/ InvokeTestDayOfWeek
    \/ InvokeTestTutorialVsCareer
    \/ InvokeCompareVideoCategories

SpecAnalytics == InitAnalytics /\ [][NextAnalytics]_vars

(***************************************************************************)
(* C18                                                                     *)
(***************************************************************************)
\* C18: after any sequence of the procedures, in any order and with
\* repetition, the table the analytics object holds has the rows, the columns
\* and the values it had when the object was made, and a table a procedure
\* returns is another object.
C18_TableReadOnly ==
    pc = "analytics" =>
        /\ df = 1
        /\ heap[df].columns = DOMAIN video_data[1] \cup DerivedColumns
        /\ Len(heap[df].rows) = Len(video_data)
        /\ \A i \in 1..Len(video_data) : heap[df].rows[i] = ProcessRow(video_data[i])
        /\ ret.ref # df

\* After some calls, the last one of the duration test, a table of top videos
\* exists whose first row is not the first row of the table analysed.
C18_Witness ==
    /\ pc = "analytics"
    /\ ret.status = "returned"
    /\ ret.procedure = "test_duration_engagement_hypothesis"
    /\ Len(heap) = 2
    /\ heap[2].columns = TopVideoColumns
    /\ heap[2].rows[1].views > heap[df].rows[1].views

(***************************************************************************)
(* C19                                                                     *)
(***************************************************************************)
\* a and b are classes of the ordering Very Short < Short < Medium < Long <
\* Very Long, and a does not come after b.
NotAfter(a, b) ==
    \E x \in 1..Len(labels), y \in 1..Len(labels) :
        /\ labels[x] = a
        /\ labels[y] = b
        /\ x <= y

\* C19: of two records with durations 0 <= d1 < d2 the bucket of the first
\* never comes after the bucket of the second in the order of the classes.
C19_BucketMonotonic ==
    Returned =>
        \A i \in 1..Len(OutRows), j \in 1..Len(OutRows) :
            OutRows[i].duration_sec < OutRows[j].duration_sec =>
                NotAfter(OutRows[i].duration_category, OutRows[j].duration_category)

(***************************************************************************)
(* YouTubeDataExtractor: get_all_video_ids and get_video_details against   *)
(* the API.  The server holds the videos 1..count of the upload playlist   *)
(* and serves them in pages of maxResults; its videos endpoint leaves out  *)
(* the unavailable videos and answers in the order asked or in reverse.    *)
(* The fail_page-th playlistItems request and the fail_batch-th videos     *)
(* request raise (0: none does).                                           *)
(***************************************************************************)
\* maxResults=50
maxResults == 50

\* range(0, len(video_ids), 50) and video_ids[i:i+50]
BatchSize == 50

Servers ==
    { [count |-> n, fail_page |-> fp, fail_batch |-> fb, unavailable |-> u, reversed |-> r] :
          n  \in { k \in { pg * maxResults + d : pg \in 0..MaxPages, d \in {-1, 0, 1} } : k >= 0 },
          fp \in 0..(MaxPages + 1),
          fb \in 0..(MaxPages + 1),
          u  \in { {}, {1, maxResults + 1} },
          r  \in BOOLEAN }

\* playlistItems().list(..., maxResults=50, pageToken=token).execute(): the
\* page, and the token of the next page when there is one.  A token is <<p>>,
\* p the number of the page it asks for; no token (None) is the empty tuple.
PlaylistItemsList(srv, token) ==
    LET page == IF token = Absent THEN 1 ELSE token[1]
        from == (page - 1) * maxResults
        upto == IF page * maxResults < srv.count THEN page * maxResults ELSE srv.count
    IN  [items |-> [k \in 1..(upto - from) |-> [contentDetails |-> [videoId |-> from + k]]],
         nextPageToken |-> IF page * maxResults < srv.count THEN <<page + 1>> ELSE Absent]

\* One pass of `while True`; the exception of a failed request is caught by the
\* except clause, which returns [].
RECURSIVE PlaylistLoop(_, _, _, _)
PlaylistLoop(srv, next_page_token, video_ids_so_far, sent) ==
    LET log == Append(sent, [api |-> "playlistItems", pageToken |-> next_page_token])
    IN  IF srv.fail_page = Len(log)
        THEN [video_ids |-> <<>>, requests |-> log]
        ELSE LET response    == PlaylistItemsList(srv, next_page_token)
                 page_videos == [k \in 1..Len(response.items) |->
                                     response.items[k].contentDetails.videoId]
                 extended    == video_ids_so_far \o page_videos
             IN  IF response.nextPageToken = Absent
                 THEN [video_ids |-> extended, requests |-> log]
                 ELSE PlaylistLoop(srv, response.nextPageToken, extended, log)

get_all_video_ids(srv) == PlaylistLoop(srv, Absent, <<>>, <<>>)

\* videos().list(id=','.join(batch)).execute()['items']
VideosList(srv, batch) ==
    LET found == SelectSeq(batch, LAMBDA id : id \notin srv.unavailable)
    IN  IF srv.reversed THEN [k \in 1..Len(found) |-> found[Len(found) + 1 - k]]
        ELSE found

\* The dict appended for a response item.
VideoData(id) ==
    [RawItem(DefaultTitle, 1, 0, 0, DefaultDuration, DefaultPublished) EXCEPT !.video_id = id]

\* A faulty except clause, for the sensitivity of C20: what was collected is
\* returned.
ReturnOnError_partial(stats) == stats

\* except Exception as e: ...; return []
ReturnOnError(stats) == <<>>

\* for i in range(0, len(video_ids), 50): the pass for i, and those after it
RECURSIVE BatchLoop(_, _, _, _, _)
BatchLoop(srv, ids, i, stats, sent) ==
    IF i >= Len(ids) THEN [stats |-> stats, requests |-> sent]
    ELSE LET last  == IF i + BatchSize < Len(ids) THEN i + BatchSize ELSE Len(ids)
             batch == SubSeq(ids, i + 1, last)
             log   == Append(sent, [api |-> "videos", id |-> batch])
         IN  IF srv.fail_batch = Len(log)
             THEN [stats |-> ReturnOnError(stats), requests |-> log]
             ELSE LET items == VideosList(srv, batch)
                  IN  BatchLoop(srv, ids, i + BatchSize,
                                stats \o [k \in 1..Len(items) |-> VideoData(items[k])], log)

get_video_details(srv, ids) == BatchLoop(srv, ids, 0, <<>>, <<>>)

InitExtract ==
    /\ pc = "get_all_video_ids"
    /\ server \in Servers
    /\ requests = <<>>
    /\ IdleMain
    /\ IdleProcess
    /\ IdleDuration
    /\ IdleCategory
    /\ IdleKeywords

CallGetAllVideoIds ==
    /\ pc = "get_all_video_ids"
    /\ LET out == get_all_video_ids(server)
       IN  /\ video_ids' = out.video_ids
           /\ requests' = requests \o out.requests
    /\ pc' = "get_video_details"
    /\ UNCHANGED <<server, playlist_id, csv_written, h1_results, h2_results, h3_results,
                   output, stat_calls, executed, procVars, durVars, catVars, kwVars>>

CallGetVideoDetails ==
    /\ pc = "get_video_details"
    /\ LET out == get_video_details(server, video_ids)
       IN  /\ video_data' = out.stats
           /\ requests' = requests \o out.requests
    /\ pc' = "returned"
    /\ UNCHANGED <<server, heap, df, ret, mainVars, durVars, catVars, kwVars>>

NextExtract == CallGetAllVideoIds \/ CallGetVideoDetails

SpecExtract == InitExtract /\ [][NextExtract]_vars

(***************************************************************************)
(* C20                                                                     *)
(***************************************************************************)
PageRequests == SelectSeq(requests, LAMBDA q : q.api = "playlistItems")

BatchRequests == SelectSeq(requests, LAMBDA q : q.api = "videos")

\* The pages of the playlist: one, possibly empty, or as many as hold count ids
PageCount == IF server.count = 0 THEN 1 ELSE (server.count + 49) \div 50

RECURSIVE Concat(_)
Concat(seqs) == IF seqs = <<>> THEN <<>> ELSE Head(seqs) \o Concat(Tail(seqs))

\* C20: get_all_video_ids follows the page tokens to the last page and returns
\* the ids of all pages in page order; get_video_details asks for the ids in
\* consecutive batches of at most 50, each id in exactly one batch, and
\* returns the records in the order of the responses; when a page request or a
\* batch request fails, the function returns the empty list, never a part.
C20_AllOrNothing ==
    /\ pc \in {"get_video_details", "returned"} =>
           IF server.fail_page \in 1..PageCount
           THEN video_ids = <<>>
           ELSE /\ video_ids = [i \in 1..server.count |-> i]
                /\ Len(PageRequests) = PageCount
                /\ \A k \in 1..PageCount :
                       PageRequests[k].pageToken = (IF k = 1 THEN <<>> ELSE <<k>>)
    /\ pc = "returned" =>
           LET asked == [k \in 1..Len(BatchRequests) |-> BatchRequests[k].id]
               all   == (Len(video_ids) + 49) \div 50
           IN  /\ \A k \in 1..Len(asked) : Len(asked[k]) \in 1..50
               /\ IF server.fail_batch \in 1..all
                  THEN /\ video_data = <<>>
                       /\ Concat(asked) = SubSeq(video_ids, 1, Len(Concat(asked)))
                  ELSE /\ Concat(asked) = video_ids
                       /\ [k \in 1..Len(video_data) |-> video_data[k].video_id]
                              = Concat([k \in 1..Len(asked) |-> VideosList(server, asked[k])])

\* Three pages of ids have been fetched, and the second of three batches of
\* details has failed: the result is empty.
C20_Witness ==
    /\ pc = "returned"
    /\ Len(video_ids) = 2 * 50 + 1
    /\ Len(PageRequests) = 3
    /\ Len(BatchRequests) = 2
    /\ server.fail_batch = 2
    /\ video_data = <<>>

====
